---------------------------- MODULE Spec2Model ----------------------------
(***************************************************************************)
(* A model of the arbitrage scanner of src/prop_arb_scanner.py (class      *)
(* ArbScanner) and of the best-odds finder of src/best_lines.py (class     *)
(* BestOddsFinder, whose find_best_odds is the same code).                 *)
(*                                                                         *)
(* Numbers.  Decimal odds are held in hundredths (2.10 is 210), money in   *)
(* cents (500.00 is 50000) and the return on investment in hundredths of   *)
(* a percent.  The code's float arithmetic (/, +, *, -) is modelled by     *)
(* exact rational arithmetic on normalised fractions, and round(x, 2) by   *)
(* rounding the exact value to the nearest hundredth.  The IEEE-754        *)
(* rounding error of each float operation (about 1e-16 relative) is not    *)
(* modelled; where it decides the result, at an exact tie of round(x, 2),  *)
(* the model allows both neighbours.                                       *)
(***************************************************************************)
EXTENDS Integers, Sequences, FiniteSets, TLC

VARIABLES
    market_data,       \* find_best_odds: the market snapshot it is given
    best,              \* find_best_odds: what it returned
    total_budget,      \* calculate_stakes: the budget, in cents
    odds_a,            \* calculate_stakes: the first price, in hundredths
    odds_b,            \* calculate_stakes: the second price, in hundredths
    arb,               \* calculate_stakes: what it returned
    markets,           \* run_scanner: the market configuration (key, name)
    game_data,         \* run_scanner: the games fetch_or_load_data returned
    all_game_results,  \* run_scanner: the list of game results
    pc                 \* which call has been made

vars == <<market_data, best, total_budget, odds_a, odds_b, arb,
          markets, game_data, all_game_results, pc>>

(***************************************************************************)
(* Bounds of the model.                                                    *)
(***************************************************************************)
MaxQuotes == 3     \* quotes in a snapshot given to find_best_odds
MaxOdds == 230     \* the largest price of the exhaustive price range
MaxGames == 3      \* games in game_data

(***************************************************************************)
(* Python values.                                                          *)
(***************************************************************************)
None == [kind |-> "None"]
ZeroDivisionError == [kind |-> "ZeroDivisionError"]
NotCalled == [kind |-> "NotCalled"]

Abs(n) == IF n < 0 THEN -n ELSE n

RECURSIVE GCD(_, _)
GCD(a, b) == IF b = 0 THEN a ELSE GCD(b, a % b)

(***************************************************************************)
(* Exact fractions num/den, den > 0, in lowest terms: the values of the    *)
(* code's float expressions.                                               *)
(***************************************************************************)
Rat(n, d) ==
    LET g == GCD(Abs(n), Abs(d))
        s == IF d < 0 THEN -1 ELSE 1
    IN  [num |-> (s * n) \div g, den |-> (s * d) \div g]

RMul(x, y) ==
    LET g1 == GCD(Abs(x.num), y.den)
        g2 == GCD(Abs(y.num), x.den)
    IN  Rat((x.num \div g1) * (y.num \div g2), (x.den \div g2) * (y.den \div g1))

\* x / y for y # 0 (Python raises ZeroDivisionError for y = 0: the callers test it)
RDiv(x, y) == RMul(x, Rat(y.den, y.num))

RAdd(x, y) ==
    LET g == GCD(x.den, y.den)
    IN  Rat(x.num * (y.den \div g) + y.num * (x.den \div g), (x.den \div g) * y.den)

RSub(x, y) == RAdd(x, [num |-> -y.num, den |-> y.den])

RLess(x, y) == x.num * y.den < y.num * x.den

RLeq(x, y) == x.num * y.den <= y.num * x.den

RZero == Rat(0, 1)
ROne == Rat(1, 1)
RHundred == Rat(100, 1)

\* The integers nearest to x: one, or at an exact tie the two neighbours (the
\* double that holds x lies on one side of the tie, and round() follows it).
RoundNearest(x) ==
    LET f == x.num \div x.den
        r2 == 2 * (x.num - f * x.den)
    IN  IF r2 < x.den THEN {f}
        ELSE IF r2 > x.den THEN {f + 1}
        ELSE {f, f + 1}

\* round(x, 2), as a whole number of hundredths: the values it can return
Round2(x) == RoundNearest(RMul(x, RHundred))

(***************************************************************************)
(* calculate_stakes.  The arguments are the budget in cents and the two    *)
(* prices in hundredths; the operators below are its local variables.      *)
(***************************************************************************)
Budget(b) == Rat(b, 100)
Odds(o) == Rat(o, 100)

\* prob_a = 1 / odds_a, prob_b = 1 / odds_b
prob(o) == RDiv(ROne, Odds(o))

\* total_prob = prob_a + prob_b
total_prob(oa, ob) == RAdd(prob(oa), prob(ob))

\* Mutant: the stake is not divided by total_prob.
stake_a_raw_undivided(b, oa, ob) == RMul(Budget(b), prob(oa))

\* stake_a = (total_budget * prob_a) / total_prob, before rounding
stake_a_raw(b, oa, ob) == RDiv(RMul(Budget(b), prob(oa)), total_prob(oa, ob))

\* Mutant: stake_b is not divided by total_prob.
stake_b_raw_undivided(b, oa, ob) == RMul(Budget(b), prob(ob))

\* Mutant: stake_b is computed from prob_a, as stake_a is.
stake_b_raw_from_prob_a(b, oa, ob) == RDiv(RMul(Budget(b), prob(oa)), total_prob(oa, ob))

\* stake_b = (total_budget * prob_b) / total_prob, before rounding
stake_b_raw(b, oa, ob) == RDiv(RMul(Budget(b), prob(ob)), total_prob(oa, ob))

\* Mutant: the operands of the subtraction are swapped.
profit_raw_swapped(b, oa, ob) == RSub(Budget(b), RMul(stake_a_raw(b, oa, ob), Odds(oa)))

\* profit = (stake_a * odds_a) - total_budget, before rounding
profit_raw(b, oa, ob) == RSub(RMul(stake_a_raw(b, oa, ob), Odds(oa)), Budget(b))

\* roi = (profit / total_budget) * 100, before rounding
roi_raw(b, oa, ob) == RMul(RDiv(profit_raw(b, oa, ob), Budget(b)), RHundred)

\* Mutant: only odds_a is tested.
InvalidOdds_first_only(oa, ob) == RLeq(Odds(oa), ROne)

\* if odds_a <= 1 or odds_b <= 1: return None
InvalidOdds(oa, ob) == RLeq(Odds(oa), ROne) \/ RLeq(Odds(ob), ROne)

\* Mutant: total_prob > 1 instead of total_prob >= 1.
NoArbitrage_strict(oa, ob) == RLess(ROne, total_prob(oa, ob))

\* if total_prob >= 1: return None
NoArbitrage(oa, ob) == RLeq(ROne, total_prob(oa, ob))

\* The values calculate_stakes(total_budget, odds_a, odds_b) can return: None, the
\* result dictionary, or the ZeroDivisionError a division by 0 raises.
calculate_stakes(b, oa, ob) ==
    IF InvalidOdds(oa, ob) THEN {None}
    ELSE IF oa = 0 \/ ob = 0 THEN {ZeroDivisionError}
    ELSE IF NoArbitrage(oa, ob) THEN {None}
    ELSE IF total_prob(oa, ob) = RZero THEN {ZeroDivisionError}
    ELSE IF b = 0 THEN {ZeroDivisionError}
    ELSE [kind : {"result"},
          stake_a : Round2(stake_a_raw(b, oa, ob)),
          stake_b : Round2(stake_b_raw(b, oa, ob)),
          profit : Round2(profit_raw(b, oa, ob)),
          roi : Round2(roi_raw(b, oa, ob))]

(***************************************************************************)
(* The specification of calculate_stakes alone: any budget and prices of   *)
(* the sets below, then the call.                                          *)
(***************************************************************************)
BudgetValues == {0, 1, 100, 333, 50000}
OddsValues == {-100, 0, 50} \cup (95 .. MaxOdds)

InitStakes ==
    /\ total_budget \in BudgetValues
    /\ odds_a \in OddsValues
    /\ odds_b \in OddsValues
    /\ arb = NotCalled
    /\ market_data = <<>>
    /\ best = NotCalled
    /\ markets = <<>>
    /\ game_data = <<>>
    /\ all_game_results = <<>>
    /\ pc = "start"

CalculateStakes ==
    /\ pc = "start"
    /\ arb' \in calculate_stakes(total_budget, odds_a, odds_b)
    /\ pc' = "done"
    /\ UNCHANGED <<market_data, best, total_budget, odds_a, odds_b,
                   markets, game_data, all_game_results>>

NextStakes == CalculateStakes

SpecStakes == InitStakes /\ [][NextStakes]_vars

(***************************************************************************)
(* find_best_odds (the same code in both files).  A market snapshot is     *)
(*   [bookmakers |-> <<[title, markets |-> <<[key, outcomes |->            *)
(*                                   <<[name, price], ...>>], ...>>], ...>>] *)
(* Outcome labels are strings; LabelOrder lists them in Python's string    *)
(* order, which sorted() follows.                                          *)
(***************************************************************************)
LabelOrder == <<"Away", "Draw", "Home", "Over", "Under">>

\* best_outcome_a, best_outcome_b = {"price": 0, "book": "", "name": ""}
Sentinel == [price |-> 0, book |-> "", name |-> ""]

RECURSIVE ConcatAll(_)
ConcatAll(ss) == IF ss = <<>> THEN <<>> ELSE Head(ss) \o ConcatAll(Tail(ss))

\* The quotes in the order the three nested for loops visit them, each with the
\* title of its bookmaker.
BookQuotes(book) ==
    ConcatAll([m \in 1 .. Len(book.markets) |->
        [o \in 1 .. Len(book.markets[m].outcomes) |->
            [book |-> book.title,
             name |-> book.markets[m].outcomes[o].name,
             price |-> book.markets[m].outcomes[o].price]]])

Quotes(md) ==
    ConcatAll([b \in 1 .. Len(md.bookmakers) |-> BookQuotes(md.bookmakers[b])])

\* outcome_names: the set the first loop collects from the quotes qs
outcome_names(qs) == {qs[i].name : i \in 1 .. Len(qs)}

\* Mutant: the labels in descending order.
sorted_descending(names) ==
    LET asc == SelectSeq(LabelOrder, LAMBDA l : l \in names)
    IN  [i \in 1 .. Len(asc) |-> asc[Len(asc) + 1 - i]]

\* sorted(list(outcome_names))
sorted(names) == SelectSeq(LabelOrder, LAMBDA l : l \in names)

\* Mutant: >= instead of >.
Better_or_equal(price, record) == price >= record.price

\* Mutant: < instead of >.
Better_lower(price, record) == price < record.price

\* price > best_outcome['price']
Better(price, record) == price > record.price

\* The body of the second loop for one quote: bests is <<best_outcome_a, best_outcome_b>>.
Update(bests, q, name_a, name_b) ==
    IF q.name = name_a /\ Better(q.price, bests[1])
    THEN <<[price |-> q.price, book |-> q.book, name |-> name_a], bests[2]>>
    ELSE IF q.name = name_b /\ Better(q.price, bests[2])
    THEN <<bests[1], [price |-> q.price, book |-> q.book, name |-> name_b]>>
    ELSE bests

RECURSIVE Scan(_, _, _, _)
Scan(bests, qs, name_a, name_b) ==
    IF qs = <<>> THEN bests
    ELSE Scan(Update(bests, Head(qs), name_a, name_b), Tail(qs), name_a, name_b)

\* Mutant: len(outcome_names) < 2 instead of != 2.
find_best_odds_at_least_two(md) ==
    LET qs == Quotes(md)
        ns == sorted(outcome_names(qs))
    IN  IF Cardinality(outcome_names(qs)) < 2 THEN <<None, None>>
        ELSE Scan(<<Sentinel, Sentinel>>, qs, ns[1], ns[2])

find_best_odds(md) ==
    LET qs == Quotes(md)
        ns == sorted(outcome_names(qs))
    IN  IF Cardinality(outcome_names(qs)) # 2 THEN <<None, None>>
        ELSE Scan(<<Sentinel, Sentinel>>, qs, ns[1], ns[2])

(***************************************************************************)
(* The specification of find_best_odds alone: any snapshot of at most      *)
(* MaxQuotes quotes, split among bookmakers in any way, then the call.     *)
(***************************************************************************)
BookTitles == <<"BookA", "BookB", "BookC", "BookD", "BookE">>
QuotePrices == {-100, 0, 150, 200}
QuoteLabels == {"Draw", "Over", "Under"}
QuoteTypes == [name : QuoteLabels, price : QuotePrices]

\* The snapshot whose quotes are qs, a new bookmaker starting at each place of cuts.
Snapshot(qs, cuts) ==
    LET BookOf(i) == 1 + Cardinality({j \in cuts : j <= i})
        Places(b) == {i \in 1 .. Len(qs) : BookOf(i) = b}
        First(b) == CHOOSE i \in Places(b) : \A j \in Places(b) : i <= j
        nbooks == IF qs = <<>> THEN 0 ELSE 1 + Cardinality(cuts)
    IN  [bookmakers |->
            [b \in 1 .. nbooks |->
                [title |-> BookTitles[b],
                 markets |-> <<[key |-> "totals",
                                outcomes |-> [k \in 1 .. Cardinality(Places(b)) |->
                                                 qs[First(b) + k - 1]]]>>]]]

InitBest ==
    /\ \E n \in 0 .. MaxQuotes :
          \E qs \in [1 .. n -> QuoteTypes], cuts \in SUBSET (2 .. n) :
              market_data = Snapshot(qs, cuts)
    /\ best = NotCalled
    /\ total_budget = 0
    /\ odds_a = 0
    /\ odds_b = 0
    /\ arb = NotCalled
    /\ markets = <<>>
    /\ game_data = <<>>
    /\ all_game_results = <<>>
    /\ pc = "start"

FindBestOdds ==
    /\ pc = "start"
    /\ best' = find_best_odds(market_data)
    /\ pc' = "done"
    /\ UNCHANGED <<market_data, total_budget, odds_a, odds_b, arb,
                   markets, game_data, all_game_results>>

NextBest == FindBestOdds

SpecBest == InitBest /\ [][NextBest]_vars

(***************************************************************************)
(* scan_game_markets and run_scanner (src/prop_arb_scanner.py).  A game is *)
(* [game |-> its "away @ home" name, bookmakers |-> <<[title, markets]>>]; *)
(* the markets dictionary of a game result is the sequence of its entries  *)
(* [name, best_a, best_b, arb] in insertion order.                         *)
(***************************************************************************)
GAME_BUDGET == 50000

\* FEATURED_MARKETS as shipped in prop_arb_scanner.py, and with the "h2h" entry
\* that is commented out there enabled (as it is in best_lines.py).
FEATURED_MARKETS == <<[key |-> "totals", name |-> "Game Total O/U"]>>
FEATURED_MARKETS_H2H ==
    <<[key |-> "h2h", name |-> "Moneyline (Winner)"],
      [key |-> "totals", name |-> "Game Total O/U"]>>

\* next((m for m in book['markets'] if m['key'] == market_key), None), as the
\* one-entry list [market_entry], or the empty list for None
market_entry(book, key) ==
    LET found == SelectSeq(book.markets, LAMBDA m : m.key = key)
    IN  IF found = <<>> THEN <<>> ELSE <<Head(found)>>

\* market_data: the bookmakers that offer the market, each with this one entry
market_data_of(game, key) ==
    [bookmakers |->
        ConcatAll([b \in 1 .. Len(game.bookmakers) |->
            IF market_entry(game.bookmakers[b], key) = <<>> THEN <<>>
            ELSE <<[title |-> game.bookmakers[b].title,
                    markets |-> market_entry(game.bookmakers[b], key)]>>])]

\* if not best_a or not best_b or best_a['price'] == 0: continue
Unusable(bests) == bests[1] = None \/ bests[2] = None \/ bests[1].price = 0

\* The entries the loop over markets.items() can store, in order (several only
\* where round() can fall either way).
RECURSIVE market_entries(_, _, _)
market_entries(game, ms, budget) ==
    IF ms = <<>> THEN {<<>>}
    ELSE LET md == market_data_of(game, Head(ms).key)
             bests == find_best_odds(md)
             rest == market_entries(game, Tail(ms), budget)
         IN  IF md.bookmakers = <<>> THEN rest
             ELSE IF Unusable(bests) THEN rest
             ELSE {<<[name |-> Head(ms).name, best_a |-> bests[1],
                      best_b |-> bests[2], arb |-> a]>> \o r :
                      a \in calculate_stakes(budget, bests[1].price, bests[2].price),
                      r \in rest}

\* The game results scan_game_markets(game, markets, total_budget) can return.
scan_game_markets(game, ms, budget) ==
    {[game |-> game.game, markets |-> es] : es \in market_entries(game, ms, budget)}

\* if market["arb"]: a result dictionary is true, None is not
Truthy(a) == a # None

\* Mutant: the first component is arb_found, not -arb_found.
key_of_not_negated(arb_found, min_prob) == <<arb_found, min_prob>>

\* return (-arb_found, min_prob)
key_of(arb_found, min_prob) == <<-arb_found, min_prob>>

\* The loop of sort_key over item["markets"].values(), from arb_found and min_prob.
RECURSIVE sort_key_loop(_, _, _)
sort_key_loop(es, arb_found, min_prob) ==
    IF es = <<>> THEN key_of(arb_found, min_prob)
    ELSE IF Truthy(Head(es).arb)
    THEN LET pr == RAdd(RDiv(ROne, Odds(Head(es).best_a.price)),
                        RDiv(ROne, Odds(Head(es).best_b.price)))
         IN  sort_key_loop(Tail(es), 1, IF RLess(pr, min_prob) THEN pr ELSE min_prob)
    ELSE sort_key_loop(Tail(es), arb_found, min_prob)

sort_key(item) == sort_key_loop(item.markets, 0, Rat(2, 1))

\* Python's order of the key tuples
KeyLess(k1, k2) == k1[1] < k2[1] \/ (k1[1] = k2[1] /\ RLess(k1[2], k2[2]))

\* list.sort(key=sort_key) computes the key of each item once, then sorts the
\* items by their keys, ascending and stable: each item goes behind the items
\* already placed whose key is not greater.  An element is <<key, item>>.
RECURSIVE Insert(_, _)
Insert(placed, e) ==
    IF placed = <<>> THEN <<e>>
    ELSE IF KeyLess(e[1], Head(placed)[1])
    THEN <<e>> \o placed
    ELSE <<Head(placed)>> \o Insert(Tail(placed), e)

RECURSIVE SortFrom(_, _)
SortFrom(placed, es) ==
    IF es = <<>> THEN placed ELSE SortFrom(Insert(placed, Head(es)), Tail(es))

sort(items) ==
    LET keyed == [i \in 1 .. Len(items) |-> <<sort_key(items[i]), items[i]>>]
        sorted_keyed == SortFrom(<<>>, keyed)
    IN  [i \in 1 .. Len(items) |-> sorted_keyed[i][2]]

(***************************************************************************)
(* The specification of run_scanner: the games fetch_or_load_data returns  *)
(* are of the shapes below (one or two bookmakers, a totals market and a   *)
(* moneyline market each offered or not), then the call.                   *)
(***************************************************************************)
Market(key, name_1, price_1, name_2, price_2) ==
    [key |-> key,
     outcomes |-> <<[name |-> name_1, price |-> price_1],
                    [name |-> name_2, price |-> price_2]>>]

TotalsOffers ==
    {<<>>} \cup {<<Market("totals", "Over", p[1], "Under", p[2])>> :
                    p \in {<<210, 205>>, <<190, 195>>, <<210, 0>>, <<0, 210>>}}
MoneylineOffers == {<<>>, <<Market("h2h", "Away", 205, "Home", 205)>>}
SecondBooks == {<<>>, <<[title |-> "BookB",
                         markets |-> <<Market("totals", "Over", 185, "Under", 215)>>]>>}

GameBooks ==
    {<<[title |-> "BookA", markets |-> h \o t]>> \o b :
        h \in MoneylineOffers, t \in TotalsOffers, b \in SecondBooks}

MarketConfigs == {FEATURED_MARKETS, FEATURED_MARKETS_H2H}
Games == [game : 1 .. MaxGames, bookmakers : GameBooks]

\* scan_game_markets(game, FEATURED_MARKETS, GAME_BUDGET) for every game and
\* configuration of the model, computed once (@@ makes the table explicit).
scanned ==
    [x \in Games \X MarketConfigs |-> scan_game_markets(x[1], x[2], GAME_BUDGET)] @@ <<>>

\* The lists all_game_results can be before the sort: the results of the games
\* in order, those with no market entry left out.
RECURSIVE scan_all(_, _)
scan_all(games, ms) ==
    IF games = <<>> THEN {<<>>}
    ELSE {(IF r.markets = <<>> THEN <<>> ELSE <<r>>) \o rs :
             r \in scanned[<<Head(games), ms>>], rs \in scan_all(Tail(games), ms)}

Init ==
    /\ markets \in MarketConfigs
    /\ \E n \in 0 .. MaxGames :
          \E gs \in [1 .. n -> GameBooks] :
              game_data = [i \in 1 .. n |-> [game |-> i, bookmakers |-> gs[i]]]
    /\ all_game_results = <<>>
    /\ total_budget = GAME_BUDGET
    /\ odds_a = 0
    /\ odds_b = 0
    /\ arb = NotCalled
    /\ market_data = <<>>
    /\ best = NotCalled
    /\ pc = "start"

\* run_scanner up to the printing: stop when there is no game data, else scan
\* every game, keep the results that have a market, and sort them.
RunScanner ==
    /\ pc = "start"
    /\ \/ /\ game_data = <<>>
          /\ pc' = "stopped"
          /\ UNCHANGED all_game_results
       \/ /\ game_data # <<>>
          /\ \E rs \in scan_all(game_data, markets) :
                all_game_results' = sort(rs)
          /\ pc' = "done"
    /\ UNCHANGED <<market_data, best, total_budget, odds_a, odds_b, arb,
                   markets, game_data>>

Next == RunScanner

Spec == Init /\ [][Next]_vars

(***************************************************************************)
(* Properties of find_best_odds, checked under SpecBest.                   *)
(***************************************************************************)
BestReturned == best # NotCalled

\* What the properties say of the quotes qs of a snapshot, stated without the
\* operators of find_best_odds.
QuoteIdx(qs) == 1 .. Len(qs)
DistinctLabels(qs) == {qs[i].name : i \in QuoteIdx(qs)}
LabelRank(l) == CHOOSE i \in 1 .. Len(LabelOrder) : LabelOrder[i] = l
SmallerLabel(qs) ==
    CHOOSE l \in DistinctLabels(qs) : \A m \in DistinctLabels(qs) : LabelRank(l) <= LabelRank(m)
LargerLabel(qs) ==
    CHOOSE l \in DistinctLabels(qs) : \A m \in DistinctLabels(qs) : LabelRank(m) <= LabelRank(l)
SideLabel(qs, side) == IF side = 1 THEN SmallerLabel(qs) ELSE LargerLabel(qs)
IdxOf(qs, l) == {i \in QuoteIdx(qs) : qs[i].name = l}
HasPositive(qs, l) == \E i \in IdxOf(qs, l) : qs[i].price > 0
HasNonNegative(qs, l) == \E i \in IdxOf(qs, l) : qs[i].price >= 0
IsMaxOf(qs, i, l) == qs[i].name = l /\ \A j \in IdxOf(qs, l) : qs[j].price <= qs[i].price
FirstMaxOf(qs, l) ==
    CHOOSE i \in QuoteIdx(qs) : IsMaxOf(qs, i, l) /\ \A j \in 1 .. (i - 1) : ~IsMaxOf(qs, j, l)
TwoLabels(qs) == BestReturned /\ Cardinality(DistinctLabels(qs)) = 2
IsRecordPair == best[1] # None /\ best[2] # None

\* C1 as stated: with exactly 2 distinct labels, whatever the prices, two records
\* come back and their names are the smaller and the larger label, in this order.
C1_Original ==
    LET qs == Quotes(market_data)
    IN  TwoLabels(qs) =>
            /\ IsRecordPair
            /\ best[1].name = SmallerLabel(qs)
            /\ best[2].name = LargerLabel(qs)

\* C1, amended: with exactly 2 distinct labels two records come back; the first is
\* named with the smaller label and the second with the larger one when the label
\* has a quote with a price > 0, and a record whose label has none keeps the name "".
C1_SortedNames ==
    LET qs == Quotes(market_data)
    IN  TwoLabels(qs) =>
            /\ IsRecordPair
            /\ \A side \in {1, 2} :
                  best[side].name =
                      IF HasPositive(qs, SideLabel(qs, side)) THEN SideLabel(qs, side) ELSE ""

C1_Witness ==
    LET qs == Quotes(market_data)
    IN  /\ TwoLabels(qs)
        /\ Len(market_data.bookmakers) >= 2
        /\ HasPositive(qs, SmallerLabel(qs)) /\ HasPositive(qs, LargerLabel(qs))
        /\ best[1].name = SmallerLabel(qs) /\ best[2].name = LargerLabel(qs)

\* C2: with a number of distinct labels other than 2 (0, 1, 3 or more) the call
\* returns (None, None), whatever the prices.
C2_NotTwoLabels ==
    LET qs == Quotes(market_data)
    IN  (BestReturned /\ Cardinality(DistinctLabels(qs)) # 2) => best = <<None, None>>

C2_Witness ==
    LET qs == Quotes(market_data)
    IN  /\ BestReturned
        /\ Cardinality(DistinctLabels(qs)) = 3
        /\ \A i \in QuoteIdx(qs) : qs[i].price > 0
        /\ best = <<None, None>>

\* C3 as stated: for each of the two outcomes the returned price is at least every
\* quote's price for it and is the price of one of its quotes, for all prices.
C3_Original ==
    LET qs == Quotes(market_data)
    IN  TwoLabels(qs) =>
            \A side \in {1, 2} :
                /\ \A i \in IdxOf(qs, SideLabel(qs, side)) : best[side].price >= qs[i].price
                /\ \E i \in IdxOf(qs, SideLabel(qs, side)) : best[side].price = qs[i].price

\* C3, amended: the returned price is at least every quote's price for the outcome;
\* it is the price of one of its quotes when one of them is >= 0, and it is the
\* initial 0 when all of them are negative.
C3_MaxPrice ==
    LET qs == Quotes(market_data)
    IN  TwoLabels(qs) =>
            \A side \in {1, 2} :
                /\ \A i \in IdxOf(qs, SideLabel(qs, side)) : best[side].price >= qs[i].price
                /\ HasNonNegative(qs, SideLabel(qs, side)) =>
                      \E i \in IdxOf(qs, SideLabel(qs, side)) : best[side].price = qs[i].price
                /\ ~HasNonNegative(qs, SideLabel(qs, side)) => best[side].price = 0

C3_Witness ==
    LET qs == Quotes(market_data)
    IN  /\ TwoLabels(qs)
        /\ \E i, j \in IdxOf(qs, SmallerLabel(qs)) :
              0 < qs[i].price /\ qs[i].price < qs[j].price /\ best[1].price = qs[j].price
        /\ HasPositive(qs, LargerLabel(qs))

StakesReturned == arb # NotCalled
IsResult == StakesReturned /\ arb.kind = "result"

\* 1/priceA + 1/priceB < 1 for prices > 0, without the fractions of the model
SumBelowOne(oa, ob) == 100 * (oa + ob) < oa * ob

\* C5: when at least one price is <= 1.0 (0 and negative prices included) the call
\* returns None for every budget, and raises nothing.
C5_InvalidOdds ==
    (StakesReturned /\ (odds_a <= 100 \/ odds_b <= 100)) => arb = None

C5_Witness ==
    /\ StakesReturned
    /\ odds_a > 100 /\ odds_b = 0 /\ total_budget = 0
    /\ arb = None

\* C6: for prices > 1.0 and a budget > 0 the call returns a result if and only if
\* 1/priceA + 1/priceB < 1, and None otherwise, the sum exactly 1 included.
C6_ResultIffBelowOne ==
    (StakesReturned /\ odds_a > 100 /\ odds_b > 100 /\ total_budget > 0) =>
        IF SumBelowOne(odds_a, odds_b) THEN arb.kind = "result" ELSE arb = None

C6_Witness ==
    /\ StakesReturned
    /\ odds_a = 200 /\ odds_b = 200 /\ total_budget > 0
    /\ arb = None

PayoutGap == Abs(arb.stake_a * odds_a - arb.stake_b * odds_b)

\* C7 as stated: the rounded stakes give payouts equal within 0.01.
C7_Original ==
    (IsResult /\ total_budget > 0) => PayoutGap <= 100

\* C7, amended: the stakes before rounding give equal payouts, and the rounded
\* stakes give payouts that differ by at most 0.005 * (priceA + priceB), half a
\* cent of rounding on each stake times its price.
C7_PayoutsBalanced ==
    (IsResult /\ total_budget > 0) =>
        /\ RMul(stake_a_raw(total_budget, odds_a, odds_b), Odds(odds_a))
             = RMul(stake_b_raw(total_budget, odds_a, odds_b), Odds(odds_b))
        /\ 2 * PayoutGap <= odds_a + odds_b

C7_Witness ==
    /\ IsResult
    /\ total_budget = 50000
    /\ odds_a # odds_b
    /\ PayoutGap > 100

\* The profit before rounding, in cents, is ProfitNum / ProfitDen.
ProfitNum == total_budget * (odds_a * odds_b - 100 * (odds_a + odds_b))
ProfitDen == 100 * (odds_a + odds_b)

\* C8 as stated: the 'profit' field of every result is strictly positive.
C8_Original ==
    (IsResult /\ total_budget > 0) => arb.profit > 0

\* C8, amended: the 'profit' field of a result is never negative, and it is
\* strictly positive when the profit before rounding (itself > 0) is more than
\* half a cent; a smaller profit is reported as 0.00.
C8_ProfitNotNegative ==
    (IsResult /\ total_budget > 0) =>
        /\ ProfitNum > 0
        /\ arb.profit >= 0
        /\ 2 * ProfitNum > ProfitDen => arb.profit > 0
        /\ 2 * ProfitNum < ProfitDen => arb.profit = 0

C8_Witness ==
    /\ IsResult
    /\ total_budget > 0
    /\ 2 * ProfitNum < ProfitDen
    /\ arb.profit = 0

Scenario == StakesReturned /\ total_budget = 50000 /\ odds_a = 210 /\ odds_b = 205

\* C9 as stated: 2.10, 2.05 and 500 give stake_a about 243.90, stake_b about
\* 256.10, profit about 12.2 and roi about 2.44 (each within 5 of its last digit).
C9_Original ==
    Scenario =>
        /\ arb.kind = "result"
        /\ Abs(arb.stake_a - 24390) <= 5
        /\ Abs(arb.stake_b - 25610) <= 5
        /\ Abs(arb.profit - 1220) <= 50
        /\ Abs(arb.roi - 244) <= 5

\* C9, amended: 2.10, 2.05 and 500 give stake_a 246.99, stake_b 253.01 (payouts
\* about 518.67 on each outcome), profit 18.67 and roi 3.73; the figures of the
\* claim (243.90, 256.10, payouts about 512.2, 12.2, 2.44) are those of the prices
\* 2.10 and 2.00.
C9_Scenario ==
    /\ Scenario =>
          /\ arb.kind = "result"
          /\ arb.stake_a = 24699
          /\ arb.stake_b = 25301
          /\ arb.profit = 1867
          /\ arb.roi = 373
          /\ Abs(arb.stake_a * odds_a - 5186700) <= 100
          /\ Abs(arb.stake_b * odds_b - 5186700) <= 100
    /\ (StakesReturned /\ total_budget = 50000 /\ odds_a = 210 /\ odds_b = 200) =>
          /\ arb.kind = "result"
          /\ arb.stake_a = 24390
          /\ arb.stake_b = 25610
          /\ arb.profit = 1220
          /\ arb.roi = 244
          /\ Abs(arb.stake_a * odds_a - 5122000) <= 100
          /\ Abs(arb.stake_b * odds_b - 5122000) <= 100

C9_Witness == Scenario /\ arb.kind = "result" /\ arb.stake_a + arb.stake_b = total_budget

(***************************************************************************)
(* The stakes of a result against the budget, checked under SpecStakes.    *)
(***************************************************************************)
StakeSum == arb.stake_a + arb.stake_b

\* C12: whenever the call returns a result, the two rounded stakes add up to the
\* budget within one cent, and each stake is at least 0 and at most the budget
\* (stakes and budget in cents).
C12_StakesCoverBudget ==
    IsResult =>
        /\ Abs(StakeSum - total_budget) <= 1
        /\ 0 <= arb.stake_a /\ arb.stake_a <= total_budget
        /\ 0 <= arb.stake_b /\ arb.stake_b <= total_budget

\* both stakes fall on half a cent and are rounded up: the sum is a cent over
C12_Witness ==
    /\ IsResult
    /\ total_budget = 333
    /\ odds_a # odds_b
    /\ StakeSum = total_budget + 1

(***************************************************************************)
(* Properties of run_scanner, checked under Spec.  The name of a game is   *)
(* its place in game_data.                                                 *)
(***************************************************************************)
Sorted == pc = "done"
ArbEntries(item) == {k \in 1 .. Len(item.markets) : item.markets[k].arb.kind = "result"}
GameHasArb(item) == ArbEntries(item) # {}

\* 1/e1.best_a.price + 1/e1.best_b.price <= 1/e2.best_a.price + 1/e2.best_b.price,
\* for prices > 0, without the fractions of the model
ProbLeq(e1, e2) ==
    (e1.best_a.price + e1.best_b.price) * (e2.best_a.price * e2.best_b.price)
        <= (e2.best_a.price + e2.best_b.price) * (e1.best_a.price * e1.best_b.price)

\* an arbitrage-bearing market of the game with the least 1/best_a + 1/best_b
MinProbEntry(item) ==
    item.markets[CHOOSE k \in ArbEntries(item) :
                    \A j \in ArbEntries(item) : ProbLeq(item.markets[k], item.markets[j])]

\* C10: after the sort every game with an arbitrage result precedes every game
\* with none; the games with one are in ascending order of the minimum of
\* 1/best_a.price + 1/best_b.price over their arbitrage-bearing markets; the games
\* with none keep their input order.
C10_Ranking ==
    Sorted =>
        \A i, j \in 1 .. Len(all_game_results) :
            i < j =>
                LET x == all_game_results[i]
                    y == all_game_results[j]
                IN  /\ GameHasArb(y) => GameHasArb(x)
                    /\ (GameHasArb(x) /\ GameHasArb(y)) =>
                          ProbLeq(MinProbEntry(x), MinProbEntry(y))
                    /\ (~GameHasArb(x) /\ ~GameHasArb(y)) => x.game < y.game

C10_Witness ==
    /\ Sorted
    /\ Len(all_game_results) = 3
    /\ all_game_results[1].game = 3
    /\ all_game_results[3].game = 1
    /\ Cardinality(ArbEntries(all_game_results[1])) = 2
    /\ Len(all_game_results[2].markets) = 2
    /\ Cardinality(ArbEntries(all_game_results[2])) = 1
    /\ ~ProbLeq(MinProbEntry(all_game_results[2]), MinProbEntry(all_game_results[1]))
    /\ ~GameHasArb(all_game_results[3])

\* the market entries of the game results run_scanner collected from scan_game_markets
RecordedEntries ==
    UNION {{all_game_results[i].markets[k] : k \in 1 .. Len(all_game_results[i].markets)} :
              i \in 1 .. Len(all_game_results)}

\* C11: no market entry scan_game_markets stores has a best-price record still at
\* the zero sentinel, on either side: best_a.price # 0 and best_b.price # 0.  (The
\* code tests best_a['price'] == 0 only, so an entry whose best_b is the sentinel
\* is stored, with arb None.)
C11_NoSentinelRecorded ==
    Sorted => \A e \in RecordedEntries : e.best_a.price # 0 /\ e.best_b.price # 0

=============================================================================
